---- MODULE Spec2Model ----
(***************************************************************************)
(* Model of native/jni/core/scripting.cpp: the boot-stage script driver     *)
(* exec_common_scripts / exec_module_scripts and the post-fs-data deadline  *)
(* supervisor built from the macros PFS_SETUP, PFS_WAIT and PFS_DONE.       *)
(*                                                                         *)
(* One behaviour is one stage invocation: the daemon (the "caller") calls   *)
(* exec_common_scripts(stage) and then exec_module_scripts(stage, modules). *)
(* Processes are kept in a process table; fork, waitpid, kill and exit act  *)
(* on it.  The monotonic clock is a timespec that advances by Tick; program *)
(* steps take no time of their own, so two clock reads may return the same  *)
(* value (the clock has a finite resolution).                               *)
(***************************************************************************)
EXTENDS Integers, Sequences, FiniteSets, TLC

\* ---------------------------------------------------------------- bounds
\* longest directory listing and longest module list that are enumerated
MaxEntries == 2
MaxModules == 2
\* clock units per second (the resolution of tv_nsec, scaled down)
NSEC_PER_SEC == 2
\* the blocking budget in seconds, added to tv_sec at line 89; its value is
\* set in a header outside these sources, the model takes a small one
POST_FS_DATA_SCRIPT_MAX_TIME == 1
\* the clock starts at 1 and is followed until one unit past the deadline of a
\* stage entered at once; a timer that still counts down keeps it going
MaxTicks == 2 + NSEC_PER_SEC * POST_FS_DATA_SCRIPT_MAX_TIME

\* ---------------------------------------------------------------- state
VARIABLES
    stage,        \* argument of both functions
    dirExists,    \* whether xopen_dir finds SECURE_DIR/<stage>.d
    dirLen,       \* number of entries xreaddir yields for the directory
    modules,      \* argument of exec_module_scripts: the list of modules
    item,         \* the entry or module the loop looked at last
    runnable,     \* per phase: positions whose script the file system holds
    now,          \* CLOCK_MONOTONIC
    pfs_timeout,  \* static timespec pfs_timeout
    phase,        \* "common" (exec_common_scripts) or "module"
    pc,           \* position of the caller and of the forked subtree
    pfs,          \* local bool pfs of the running function
    timer_pid,    \* local int timer_pid of the running function
    idx,          \* loop position (next entry / module), 1-based
    subtree,      \* pid of the subtree forked by PFS_SETUP, 0 if none
    procs,        \* process table: pid -> record of an unreaped process
    timers,       \* per phase: what became of the timer fork of PFS_SETUP
    entered,      \* clock value at the call of exec_common_scripts
    moduleAt,     \* where the clock read at line 127 lies: before, at or
                  \* after the clock value at entry plus the budget
    launches,     \* log of exec_command calls, in call order
    waits,        \* waitpid(-1) calls executed, per phase
    warns,        \* LOGW timeout warnings written
    kills         \* log of kill(pid, SIGKILL) calls

vars == <<stage, dirExists, dirLen, modules, item, runnable, now, pfs_timeout, phase, pc, pfs,
          timer_pid, idx, subtree, procs, timers, entered, moduleAt, launches,
          waits, warns, kills>>

\* ---------------------------------------------------------------- values
Stages == {"post-fs-data", "service"}

\* What the loops see of the file system, read when the loop gets there.
\* A dirent: d_type, and ok = (faccessat(dfd, d_name, X_OK, 0) == 0).
EntryKinds == { [d_type |-> "DT_REG", ok |-> TRUE],
                [d_type |-> "DT_REG", ok |-> FALSE],
                [d_type |-> "DT_DIR", ok |-> TRUE],
                [d_type |-> "DT_LNK", ok |-> TRUE] }
\* A module: ok = (access(MODULEROOT/<module>/<stage>.sh, F_OK) != -1).
ModuleKinds == { [d_type |-> "module", ok |-> TRUE],
                 [d_type |-> "module", ok |-> FALSE] }
NoItem == [d_type |-> "none", ok |-> FALSE]

CallerPid == 0
InitPid == -1

Zero == [tv_sec |-> 0, tv_nsec |-> 0]

\* clock units since the clock's origin
Ticks(t) == t.tv_sec * NSEC_PER_SEC + t.tv_nsec

\* the budget in clock units, and where t lies relative to t0 plus the budget
Budget == POST_FS_DATA_SCRIPT_MAX_TIME * NSEC_PER_SEC
Compare(t, t0) ==
    IF Ticks(t) < Ticks(t0) + Budget THEN "before"
    ELSE IF Ticks(t) = Ticks(t0) + Budget THEN "at" ELSE "after"

\* the clock one unit later
TsNext(t) ==
    IF t.tv_nsec + 1 = NSEC_PER_SEC
    THEN [tv_sec |-> t.tv_sec + 1, tv_nsec |-> 0]
    ELSE [tv_sec |-> t.tv_sec, tv_nsec |-> t.tv_nsec + 1]

\* ------------------------------------------------- pure parts of the code
\* (variant: the comparison inverted)
IsPfs_Inverted(s) == s # "post-fs-data"

\* bool pfs = stage == "post-fs-data"sv;
IsPfs(s) == s = "post-fs-data"

\* clock_gettime(&pfs_timeout); pfs_timeout.tv_sec += POST_FS_DATA_SCRIPT_MAX_TIME;
Deadline(t) == [tv_sec |-> t.tv_sec + POST_FS_DATA_SCRIPT_MAX_TIME, tv_nsec |-> t.tv_nsec]

\* (variant: the two fields mixed up)
TsGt_NsecFirst(a, b) ==
    IF a.tv_nsec # b.tv_nsec
    THEN a.tv_nsec > b.tv_nsec
    ELSE a.tv_sec > b.tv_sec

\* static bool operator>(const timespec &a, const timespec &b)
TsGt(a, b) ==
    IF a.tv_sec # b.tv_sec
    THEN a.tv_sec > b.tv_sec
    ELSE a.tv_nsec > b.tv_nsec

\* exec_module_scripts, lines 124-131: the pfs flag of the module phase
ModulePfs(s, t, timeout) ==
    IF IsPfs(s) THEN ~TsGt(t, timeout) ELSE FALSE

\* (variant: the two branches swapped)
ForkFn_Swapped(p) == IF p THEN "fork_dont_care" ELSE "xfork"

\* .fork = pfs ? xfork : fork_dont_care
ForkFn(p) == IF p THEN "xfork" ELSE "fork_dont_care"

\* (variant: PFS_WAIT left out)
ShouldWait_Never(p, tpid) == FALSE

\* (variant: the test of timer_pid left out)
ShouldWait_NoExpiryTest(p, tpid) == p

\* PFS_WAIT: whether waitpid(-1) is called after a launch
ShouldWait(p, tpid) == p /\ ~(tpid < 0)

\* (variant: the test of timer_pid left out)
ShouldKill_Always(tpid) == TRUE

\* (variant: the test of timer_pid inverted)
ShouldKill_Inverted(tpid) == tpid < 0

\* PFS_DONE: whether kill(timer_pid, SIGKILL) is called
ShouldKill(tpid) == tpid > 0

\* (variant: the test of d_type left out)
EntryRuns_NoTypeTest(e) == e.ok

\* the loop bodies' filters: lines 96-98 and line 139
EntryRuns(e) == e.d_type = "DT_REG" /\ e.ok

\* (variant: the access() test left out)
ModuleRuns_NoAccessTest(m) == TRUE

ModuleRuns(m) == m.ok

\* ------------------------------------------------------------- processes
\* The table holds the processes that still have an entry in the kernel's
\* process table and matter to the driver: a process leaves it when it is
\* reaped.  Scripts started with fork_dont_care are detached at once and are
\* only logged in launches.
Pids == DOMAIN procs
NoProcs == [p \in {} |-> 0]

\* fork() returns an unused pid
FreshPid == CHOOSE n \in 1..(Cardinality(Pids) + 1) : n \notin Pids

\* the process that executes the loop of the running function
Runner == IF pfs THEN "subtree" ELSE "caller"
PidOf(r) == IF r = "caller" THEN CallerPid ELSE subtree

\* length of the running loop's enumeration, and what one step of it may read
Last == IF phase = "common" THEN dirLen ELSE Len(modules)
ItemKinds == IF phase = "common" THEN EntryKinds ELSE ModuleKinds
ItemRuns(it) == IF phase = "common" THEN EntryRuns(it) ELSE ModuleRuns(it)

NewProc(k, par, dl) ==
    [kind |-> k, parent |-> par, st |-> "running", deadline |-> dl, phase |-> phase]

Spawn(k, par, dl) ==
    [p \in Pids \cup {FreshPid} |->
        IF p = FreshPid THEN NewProc(k, par, dl) ELSE procs[p]]

Reap(q) == [p \in Pids \ {q} |-> procs[p]]

\* exec_command(exec, ...) called by process par with exec.fork = fn: with xfork
\* the script is a child of par, which keeps its id to wait for; with
\* fork_dont_care it is detached and needs no wait; a failed fork starts nothing
ExecCommand(fn, par, ok) ==
    IF ok /\ fn = "xfork" THEN Spawn("script", par, Zero) ELSE procs

\* unreaped children of process q, and those of them that have terminated
Children(q) == { p \in Pids : procs[p].parent = q }
Zombies(q) == { p \in Children(q) : procs[p].st \in {"zombie", "killed"} }

\* a timer that sleeps in clock_nanosleep
Sleeping(p) == procs[p].kind = "timer" /\ procs[p].st = "running"

\* the supervisor state of the spec's state machine
State == IF ~pfs THEN "NOT_TIMED"
         ELSE IF timer_pid > 0 THEN "ARMED" ELSE "EXPIRED"

\* a timer process of this invocation has been reaped by waitpid(-1)
TimerReaped == \E ph \in {"common", "module"} : timers[ph] = "reaped"

\* a process hangs in waitpid(-1): the call is made and no child has terminated
Hangs == pc.subtree = "wait" /\ Children(subtree) # {} /\ Zombies(subtree) = {}

\* What the static pfs_timeout may hold at a call at clock value t: zero at the
\* first call in the process, else the deadline that lines 88-89 wrote in an
\* earlier call of exec_common_scripts, whose clock read was not later than t
EarlierTimeouts(t) ==
    {Zero} \cup
    { Deadline(u) : u \in { v \in [tv_sec : 0..t.tv_sec, tv_nsec : 0..(NSEC_PER_SEC - 1)] :
                               Ticks(v) <= Ticks(t) } }

\* ------------------------------------------------------------------ Init
\* the state at a call of exec_common_scripts, the first or a later one in the
\* process
Init ==
    /\ stage \in Stages
    /\ dirExists \in BOOLEAN
    /\ dirLen \in 0..MaxEntries
    /\ (~dirExists => dirLen = 0)
    /\ modules \in { [i \in 1..k |-> i] : k \in 0..MaxModules }
    /\ item = NoItem
    /\ runnable = [common |-> << >>, module |-> << >>]
    /\ now = [tv_sec |-> 0, tv_nsec |-> 1]
    /\ pfs_timeout \in EarlierTimeouts(now)
    /\ phase = "common"
    /\ pc = [caller |-> "entry", subtree |-> "none"]
    /\ pfs = FALSE
    /\ timer_pid = -1
    /\ idx = 1
    /\ subtree = 0
    /\ procs = NoProcs
    /\ timers = [common |-> "unset", module |-> "unset"]
    /\ entered = Zero
    /\ moduleAt = "unset"
    /\ launches = << >>
    /\ waits = [common |-> 0, module |-> 0]
    /\ warns = 0
    /\ kills = << >>

\* --------------------------------------------------------------- actions
\* return from the running function to the daemon, which calls
\* exec_module_scripts after exec_common_scripts
Return ==
    IF phase = "common"
    THEN /\ phase' = "module"
         /\ pc' = [pc EXCEPT !.caller = "entry"]
    ELSE /\ phase' = phase
         /\ pc' = [pc EXCEPT !.caller = "done"]

\* exec_common_scripts, lines 78-90
CommonEntry ==
    /\ pc.caller = "entry" /\ phase = "common"
    /\ entered' = now
    /\ IF ~dirExists
       THEN /\ Return
            /\ UNCHANGED <<pfs, timer_pid, pfs_timeout, idx>>
       ELSE /\ pfs' = IsPfs(stage)
            /\ timer_pid' = -1
            /\ pfs_timeout' = IF IsPfs(stage) THEN Deadline(now) ELSE pfs_timeout
            /\ idx' = 1
            /\ phase' = phase
            /\ pc' = [pc EXCEPT !.caller = "setup"]
    /\ UNCHANGED <<stage, dirExists, dirLen, modules, item, runnable, now, subtree, procs, timers,
                   moduleAt, launches, waits, warns, kills>>

\* exec_module_scripts, lines 120-132
ModuleEntry ==
    /\ pc.caller = "entry" /\ phase = "module"
    /\ IF Len(modules) = 0
       THEN /\ Return
            /\ UNCHANGED <<pfs, timer_pid, idx, moduleAt>>
       ELSE /\ pfs' = ModulePfs(stage, now, pfs_timeout)
            /\ moduleAt' = Compare(now, entered)
            /\ timer_pid' = -1
            /\ idx' = 1
            /\ phase' = phase
            /\ pc' = [pc EXCEPT !.caller = "setup"]
    /\ UNCHANGED <<stage, dirExists, dirLen, modules, item, runnable, now, pfs_timeout, subtree,
                   procs, timers, entered, launches, waits, warns, kills>>

\* (variant: the test pid < 0 left out, the caller goes on into the loop)
SetupFork_FailureIgnored ==
    /\ pc.caller = "setup"
    /\ IF pfs
       THEN \E ok \in BOOLEAN :
              IF ok
              THEN /\ procs' = Spawn("subtree", CallerPid, Zero)
                   /\ subtree' = FreshPid
                   /\ pc' = [caller |-> "waitsub", subtree |-> "timerfork"]
                   /\ phase' = phase
              ELSE /\ pc' = [pc EXCEPT !.caller = "loop"]
                   /\ UNCHANGED <<procs, subtree, phase>>
       ELSE /\ pc' = [pc EXCEPT !.caller = "loop"]
            /\ UNCHANGED <<procs, subtree, phase>>
    /\ UNCHANGED <<stage, dirExists, dirLen, modules, item, runnable, now, pfs_timeout, pfs,
                   timer_pid, idx, timers, entered, moduleAt, launches, waits,
                   warns, kills>>

\* PFS_SETUP, lines 43-50: the isolating fork; ok = FALSE is xfork() < 0
SetupFork ==
    /\ pc.caller = "setup"
    /\ IF pfs
       THEN \E ok \in BOOLEAN :
              IF ok
              THEN /\ procs' = Spawn("subtree", CallerPid, Zero)
                   /\ subtree' = FreshPid
                   /\ pc' = [caller |-> "waitsub", subtree |-> "timerfork"]
                   /\ phase' = phase
              ELSE /\ Return
                   /\ UNCHANGED <<procs, subtree>>
       ELSE /\ pc' = [pc EXCEPT !.caller = "loop"]
            /\ UNCHANGED <<procs, subtree, phase>>
    /\ UNCHANGED <<stage, dirExists, dirLen, modules, item, runnable, now, pfs_timeout, pfs,
                   timer_pid, idx, timers, entered, moduleAt, launches, waits,
                   warns, kills>>

\* PFS_SETUP, lines 51-56, in the subtree: timer_pid = xfork()
TimerFork ==
    /\ pc.subtree = "timerfork"
    /\ \E ok \in BOOLEAN :
         IF ok
         THEN /\ procs' = Spawn("timer", subtree, pfs_timeout)
              /\ timer_pid' = FreshPid
              /\ timers' = [timers EXCEPT ![phase] = "armed"]
         ELSE /\ timer_pid' = -1
              /\ procs' = procs
              /\ timers' = [timers EXCEPT ![phase] = "forkfail"]
    /\ pc' = [pc EXCEPT !.subtree = "loop"]
    /\ UNCHANGED <<stage, dirExists, dirLen, modules, item, runnable, now, pfs_timeout, phase,
                   pfs, idx, subtree, entered, moduleAt, launches, waits, warns,
                   kills>>

\* the timer process, lines 54-55: clock_nanosleep until pfs_timeout, exit(0);
\* once its parent is gone it is reaped by init
TimerExit(p) ==
    /\ Sleeping(p)
    /\ Ticks(now) >= Ticks(procs[p].deadline)
    /\ procs' = IF procs[p].parent = InitPid
                THEN Reap(p)
                ELSE [procs EXCEPT ![p].st = "zombie"]
    /\ UNCHANGED <<stage, dirExists, dirLen, modules, item, runnable, now, pfs_timeout, phase,
                   pc, pfs, timer_pid, idx, subtree, timers, entered, moduleAt,
                   launches, waits, warns, kills>>

\* what the loop head records of the item it[idx] it has read
Look(it) ==
    /\ item' = it
    /\ runnable' = IF it.ok /\ it.d_type \in {"DT_REG", "module"}
                   THEN [runnable EXCEPT ![phase] = Append(@, idx)]
                   ELSE runnable

\* loop head, lines 95-98 and 136-140: an item that is not run
LoopSkip(r) ==
    /\ r = Runner /\ pc[r] = "loop"
    /\ idx <= Last
    /\ \E it \in ItemKinds : ~ItemRuns(it) /\ Look(it)
    /\ idx' = idx + 1
    /\ UNCHANGED <<stage, dirExists, dirLen, modules, now, pfs_timeout, phase,
                   pc, pfs, timer_pid, subtree, procs, timers, entered, moduleAt,
                   launches, waits, warns, kills>>

\* lines 99-106 and 141-147: exec_command with the chosen fork function, then
\* the head of PFS_WAIT; ok = FALSE is a fork that fails
LoopLaunch(r) ==
    /\ r = Runner /\ pc[r] = "loop"
    /\ idx <= Last
    /\ \E it \in ItemKinds : ItemRuns(it) /\ Look(it)
    /\ \E ok \in BOOLEAN : procs' = ExecCommand(ForkFn(pfs), PidOf(r), ok)
    /\ launches' = Append(launches,
                     [phase |-> phase, idx |-> idx, fork |-> ForkFn(pfs),
                      state |-> State, by |-> r, reaped |-> TimerReaped])
    /\ IF ShouldWait(pfs, timer_pid)
       THEN /\ pc' = [pc EXCEPT ![r] = "wait"]
            /\ waits' = [waits EXCEPT ![phase] = @ + 1]
            /\ idx' = idx
       ELSE /\ idx' = idx + 1
            /\ UNCHANGED <<pc, waits>>
    /\ UNCHANGED <<stage, dirExists, dirLen, modules, now, pfs_timeout, phase,
                   pfs, timer_pid, subtree, timers, entered, moduleAt, warns,
                   kills>>

\* PFS_WAIT, lines 64-67: waitpid(-1) returns a terminated child, or -1 when
\* the process has no child at all
Wait(r) ==
    /\ pc[r] = "wait"
    /\ IF Children(PidOf(r)) = {}
       THEN UNCHANGED <<procs, warns, timer_pid, timers>>
       ELSE \E p \in Zombies(PidOf(r)) :
              /\ procs' = Reap(p)
              /\ IF p = timer_pid
                 THEN /\ warns' = warns + 1
                      /\ timer_pid' = -1
                 ELSE UNCHANGED <<warns, timer_pid>>
              /\ timers' = IF procs[p].kind = "timer"
                           THEN [timers EXCEPT ![phase] = "reaped"]
                           ELSE timers
    /\ idx' = idx + 1
    /\ pc' = [pc EXCEPT ![r] = "loop"]
    /\ UNCHANGED <<stage, dirExists, dirLen, modules, item, runnable, now, pfs_timeout, phase,
                   pfs, subtree, entered, moduleAt, launches, waits, kills>>

\* kill(pid, SIGKILL) on the process table
Kill(t, q) ==
    IF q \in DOMAIN t
    THEN [t EXCEPT ![q].st = IF @ = "running" THEN "killed" ELSE @]
    ELSE t

\* exit(0) of process q: it becomes a zombie of its parent; init inherits its
\* children and reaps those that have terminated
Exit(t, q) ==
    [p \in { x \in DOMAIN t : t[x].parent = q => t[x].st = "running" } |->
        IF p = q THEN [t[p] EXCEPT !.st = "zombie"]
        ELSE IF t[p].parent = q THEN [t[p] EXCEPT !.parent = InitPid]
        ELSE t[p]]

\* (variant: PFS_DONE without exit(0): the subtree falls off the end of the
\* function and returns into the caller's code)
SubtreeDone_NoExit ==
    /\ pfs /\ pc.subtree = "loop"
    /\ idx > Last
    /\ procs' = IF ShouldKill(timer_pid) THEN Kill(procs, timer_pid) ELSE procs
    /\ Return
    /\ UNCHANGED <<stage, dirExists, dirLen, modules, item, runnable, now, pfs_timeout,
                   pfs, timer_pid, idx, subtree, timers, entered, moduleAt,
                   launches, waits, warns, kills>>

\* PFS_DONE, lines 70-75, reached after the loop in the subtree
SubtreeDone ==
    /\ pfs /\ pc.subtree = "loop"
    /\ idx > Last
    /\ kills' = IF ShouldKill(timer_pid)
                THEN Append(kills,
                       [target |-> timer_pid, phase |-> phase,
                        kind |-> IF timer_pid \in Pids
                                 THEN procs[timer_pid].kind ELSE "none",
                        child |-> timer_pid \in Children(subtree)])
                ELSE kills
    /\ procs' = Exit(IF ShouldKill(timer_pid) THEN Kill(procs, timer_pid) ELSE procs,
                     subtree)
    /\ pc' = [pc EXCEPT !.subtree = "exited"]
    /\ UNCHANGED <<stage, dirExists, dirLen, modules, item, runnable, now, pfs_timeout, phase,
                   pfs, timer_pid, idx, subtree, timers, entered, moduleAt,
                   launches, waits, warns>>

\* (variant: the caller returns without waiting for the subtree)
WaitSubtree_NoWait ==
    /\ pc.caller = "waitsub"
    /\ Return
    /\ UNCHANGED <<stage, dirExists, dirLen, modules, item, runnable, now, pfs_timeout, pfs,
                   timer_pid, idx, subtree, procs, timers, entered, moduleAt, launches,
                   waits, warns, kills>>

\* PFS_SETUP, lines 48-49, in the caller: waitpid(pid) for the subtree, return
WaitSubtree ==
    /\ pc.caller = "waitsub"
    /\ procs[subtree].st = "zombie"
    /\ procs' = Reap(subtree)
    /\ Return
    /\ UNCHANGED <<stage, dirExists, dirLen, modules, item, runnable, now, pfs_timeout, pfs,
                   timer_pid, idx, subtree, timers, entered, moduleAt, launches,
                   waits, warns, kills>>

\* end of the function when PFS_DONE is bypassed: plain return in the caller
PlainReturn ==
    /\ ~pfs /\ pc.caller = "loop"
    /\ idx > Last
    /\ Return
    /\ UNCHANGED <<stage, dirExists, dirLen, modules, item, runnable, now, pfs_timeout, pfs,
                   timer_pid, idx, subtree, procs, timers, entered, moduleAt,
                   launches, waits, warns, kills>>

\* a script forked with xfork terminates (its exec failed, or it ran to its
\* end): it stays a zombie until its parent reaps it, or is reaped at once by
\* init when its subtree has exited; a script that never terminates never
\* takes this step
ScriptExit(p) ==
    /\ procs[p].kind = "script" /\ procs[p].st = "running"
    /\ procs' = IF procs[p].parent = InitPid
                THEN Reap(p)
                ELSE [procs EXCEPT ![p].st = "zombie"]
    /\ UNCHANGED <<stage, dirExists, dirLen, modules, item, runnable, now, pfs_timeout, phase,
                   pc, pfs, timer_pid, idx, subtree, timers, entered, moduleAt,
                   launches, waits, warns, kills>>

\* the clock advances by one unit; a timer whose deadline is reached leaves
\* clock_nanosleep before the clock moves on.  The clock is followed from the
\* call of exec_common_scripts on.
Tick ==
    /\ ~(phase = "common" /\ pc.caller = "entry")
    /\ \A p \in Pids : Sleeping(p) => Ticks(now) < Ticks(procs[p].deadline)
    /\ \/ Ticks(now) < MaxTicks /\ pc.caller # "done"
       \/ \E p \in Pids : Sleeping(p)
    /\ now' = TsNext(now)
    /\ UNCHANGED <<stage, dirExists, dirLen, modules, item, runnable, pfs_timeout, phase, pc,
                   pfs, timer_pid, idx, subtree, procs, timers, entered,
                   moduleAt, launches, waits, warns, kills>>

Next ==
    \/ CommonEntry
    \/ ModuleEntry
    \/ SetupFork
    \/ TimerFork
    \/ \E p \in Pids : TimerExit(p)
    \/ \E r \in {"caller", "subtree"} : LoopSkip(r)
    \/ \E r \in {"caller", "subtree"} : LoopLaunch(r)
    \/ Wait("subtree")
    \/ SubtreeDone
    \/ WaitSubtree
    \/ PlainReturn
    \/ \E p \in Pids : ScriptExit(p)
    \/ Tick

Spec == Init /\ [][Next]_vars

\* every step of the driver's processes and of the timer
Step ==
    \/ CommonEntry \/ ModuleEntry \/ SetupFork \/ WaitSubtree \/ PlainReturn
    \/ TimerFork \/ Wait("subtree") \/ SubtreeDone
    \/ \E r \in {"caller", "subtree"} : LoopSkip(r) \/ LoopLaunch(r)
    \/ \E p \in Pids : TimerExit(p)

\* the processes are scheduled, the clock advances and the timer wakes up; no
\* script is required ever to terminate
FairSpec == Spec /\ WF_vars(Step) /\ WF_vars(Tick)

\* ---------------------------------------------------------------- claims
Phases == {"common", "module"}
LaunchesOf(ph) == SelectSeq(launches, LAMBDA l : l.phase = ph)
Timed == stage = "post-fs-data"
\* the deadline of the stage: the clock value at entry plus the budget
StageDeadline == Ticks(entered) + Budget
\* a script that is still running after its subtree has exited
Orphan(p) == procs[p].kind = "script" /\ procs[p].st = "running"
             /\ procs[p].parent = InitPid

\* C1: in the timed stage both functions always eventually return to the
\* caller (the caller reaches the end of exec_module_scripts, which it can only
\* do after exec_common_scripts has returned), whatever the scripts do, given
\* only that the processes run, the clock advances and the timer wakes up.
C1_TimedStageReturns ==
    /\ (Timed /\ phase = "common") ~> (phase = "module")
    /\ (Timed /\ phase = "module") ~> (pc.caller = "done")

\* C1 witness: the caller is back from both functions although the timer of
\* the directory phase was reaped and a script of the stage is still running.
C1_Witness ==
    /\ Timed /\ pc.caller = "done"
    /\ timers.common = "reaped"
    /\ \E p \in Pids : Orphan(p)

\* C2 as stated: while a process hangs in waitpid(-1) the clock never moves
\* past the one deadline of the stage (entry time plus budget), in either
\* phase, and every timer of the invocation, the module phase's too, sleeps
\* until that deadline.
C2_BlockedOnlyUntilDeadline ==
    [][ /\ (Hangs /\ now' # now) => Ticks(now') <= StageDeadline
        /\ \A p \in Pids : procs[p].kind = "timer"
                             => Ticks(procs[p].deadline) = StageDeadline ]_vars

\* C3 as stated: xfork while ARMED, fork_dont_care while EXPIRED, and
\* fork_dont_care for every launch made after a timer has been reaped.
C3_ForkModeFollowsState ==
    \A i \in 1..Len(launches) :
        /\ launches[i].state = "ARMED" => launches[i].fork = "xfork"
        /\ launches[i].state = "EXPIRED" => launches[i].fork = "fork_dont_care"
        /\ launches[i].reaped => launches[i].fork = "fork_dont_care"

\* C3 amended: the fork function follows the phase's pfs flag alone: xfork in
\* a timed phase, ARMED or EXPIRED, and fork_dont_care exactly in an untimed
\* phase, which a module phase that begins after the deadline is.
C3_ForkModeFollowsPfs ==
    \A i \in 1..Len(launches) :
        /\ launches[i].state \in {"ARMED", "EXPIRED"} <=> launches[i].fork = "xfork"
        /\ launches[i].state = "NOT_TIMED" <=> launches[i].fork = "fork_dont_care"
        /\ (launches[i].phase = "module" /\ moduleAt = "after")
              => launches[i].fork = "fork_dont_care"
        /\ ~Timed => launches[i].fork = "fork_dont_care"

\* C3 witness: a script launched with xfork in EXPIRED, after the timer of its
\* phase was reaped.
C3_Witness ==
    \E i \in 1..Len(launches) :
        /\ launches[i].state = "EXPIRED" /\ launches[i].reaped
        /\ launches[i].fork = "xfork"

\* the phase's timer was reaped or could not be forked
Expired(ph) == timers[ph] \in {"reaped", "forkfail"}

\* C4: once the running phase is EXPIRED no waitpid(-1) is executed any more in
\* it: no process is in the wait, the count of waits stays, and a launch is
\* followed directly by the next enumeration step.
C4_NoWaitOnceExpired ==
    [][ Expired(phase) =>
          /\ pc.subtree # "wait" /\ pc'.subtree # "wait"
          /\ waits' = waits
          /\ (launches' # launches /\ phase' = phase) => idx' = idx + 1 ]_vars

\* C4 witness: in a phase whose timer was reaped a script has been launched in
\* EXPIRED and the loop is at its next step.
C4_Witness ==
    /\ timers[phase] = "reaped" /\ pc.subtree = "loop"
    /\ Len(launches) > 0
    /\ launches[Len(launches)].phase = phase
    /\ launches[Len(launches)].state = "EXPIRED"
    /\ idx = launches[Len(launches)].idx + 1

\* the subtree of phase ph has exited
SubtreeGone(ph) ==
    \/ ph = phase /\ pc.subtree = "exited" /\ timers[ph] # "unset"
    \/ ph = "common" /\ phase = "module"

\* C5: when the subtree of a timed phase has exited and never reaped its timer,
\* it has sent SIGKILL to that timer, and no timer is left asleep behind it.
C5_TimerKilledBeforeExit ==
    /\ \A ph \in Phases :
         (SubtreeGone(ph) /\ timers[ph] = "armed") =>
            \E i \in 1..Len(kills) :
               kills[i].phase = ph /\ kills[i].kind = "timer" /\ kills[i].child
    /\ \A p \in Pids : Sleeping(p) => procs[p].parent # InitPid

\* C5 witness: a subtree that launched no script has exited after killing the
\* timer it never reaped.
C5_Witness ==
    /\ pc.subtree = "exited" /\ timers[phase] = "armed"
    /\ LaunchesOf(phase) = << >>
    /\ \E i \in 1..Len(kills) : kills[i].phase = phase

\* C6: a module phase of the timed stage that begins after the deadline forks
\* no subtree and no timer, executes no waitpid(-1) and launches every module
\* script with fork_dont_care.
C6_LateModulePhaseNonBlocking ==
    (Timed /\ phase = "module" /\ moduleAt = "after") =>
        /\ timers.module = "unset"
        /\ waits.module = 0
        /\ pc.caller # "waitsub"
        /\ \A p \in Pids : procs[p].phase # "module"
        /\ \A i \in 1..Len(launches) :
              launches[i].phase = "module" =>
                 launches[i].fork = "fork_dont_care" /\ launches[i].by = "caller"

\* C6 witness: such a module phase has launched a script and returned, after a
\* directory phase that was timed.
C6_Witness ==
    /\ Timed /\ moduleAt = "after" /\ pc.caller = "done"
    /\ timers.common # "unset"
    /\ LaunchesOf("module") # << >>

\* C7 as stated: once the timer of the directory phase has been reaped, the
\* module phase of the invocation forks no timer, executes no waitpid(-1) and
\* launches nothing in ARMED.
C7_NoRearmAfterExpiry ==
    timers.common = "reaped" =>
        /\ timers.module = "unset"
        /\ waits.module = 0
        /\ \A i \in 1..Len(launches) :
              launches[i].phase = "module" => launches[i].state # "ARMED"

\* C8 as stated: at most one timeout warning per invocation, and no more
\* warnings than timers reaped by waitpid(-1).
C8_OneWarning ==
    /\ warns <= 1
    /\ warns <= Cardinality({ ph \in Phases : timers[ph] = "reaped" })

\* C9: in a stage other than post-fs-data neither function forks a subtree or
\* a timer, executes a waitpid(-1) or a kill; every script is launched with
\* fork_dont_care by the caller itself, which returns without exiting.
C9_UntimedStageBypass ==
    ~Timed =>
        /\ procs = NoProcs /\ pc.subtree = "none" /\ subtree = 0
        /\ \A ph \in Phases : timers[ph] = "unset" /\ waits[ph] = 0
        /\ kills = << >> /\ warns = 0
        /\ pc.caller \in {"entry", "setup", "loop", "done"}
        /\ \A i \in 1..Len(launches) :
              /\ launches[i].fork = "fork_dont_care"
              /\ launches[i].by = "caller"
              /\ launches[i].state = "NOT_TIMED"

\* C9 witness: the caller is back from both functions of an untimed stage,
\* having launched scripts in each.
C9_Witness ==
    /\ ~Timed /\ pc.caller = "done"
    /\ LaunchesOf("common") # << >>
    /\ LaunchesOf("module") # << >>

\* the positions launched in phase ph, in launch order
LaunchedIdx(ph) == [i \in 1..Len(LaunchesOf(ph)) |-> LaunchesOf(ph)[i].idx]

\* C10: the module scripts launched are, at every moment, those of the modules
\* looked at so far whose file exists, in list order; no more waits than
\* launches; a finished loop has looked at the whole list; and the step that
\* finds no file launches nothing, waits for nothing and changes no state.
C10_ModuleLaunches ==
    /\ [](/\ LaunchedIdx("module") = runnable.module
          /\ \A i \in 1..Len(runnable.module) :
                /\ runnable.module[i] \in 1..Len(modules)
                /\ i > 1 => runnable.module[i - 1] < runnable.module[i]
          /\ waits.module <= Len(LaunchesOf("module"))
          /\ (phase = "module" /\ pc.subtree = "exited" /\ timers.module # "unset")
                => idx = Len(modules) + 1
          /\ (phase = "module" /\ pc.caller = "done" /\ ~pfs /\ Len(modules) > 0)
                => idx = Len(modules) + 1)
    /\ [][ (phase = "module" /\ pc[Runner] = "loop" /\ idx' = idx + 1
              /\ runnable' = runnable)
           => UNCHANGED <<launches, waits, pfs, timer_pid, timers, procs, pc>> ]_vars

\* C10 witness (scenario B): of two modules only the first has the script;
\* it alone was launched, in a timed phase, and the function has returned.
C10_Witness ==
    /\ Timed /\ pc.caller = "done" /\ Len(modules) = 2
    /\ timers.module = "armed"
    /\ runnable.module = <<1>>
    /\ LaunchedIdx("module") = <<1>>

\* C11: in the directory phase the entries launched are, at every moment, those
\* of the entries read so far that are regular files with execute permission, in
\* the order of the listing; no more waits than launches; a finished loop has
\* read the whole listing; and the step that reads a directory, another entry
\* type or a file without execute permission launches nothing, waits for
\* nothing and changes no state.
C11_DirectoryLaunches ==
    /\ [](/\ LaunchedIdx("common") = runnable.common
          /\ \A i \in 1..Len(runnable.common) :
                /\ runnable.common[i] \in 1..dirLen
                /\ i > 1 => runnable.common[i - 1] < runnable.common[i]
          /\ waits.common <= Len(LaunchesOf("common"))
          /\ (phase = "common" /\ pc.subtree = "exited") => idx = dirLen + 1)
    /\ [][ /\ (phase = "common" /\ pc[Runner] = "loop" /\ idx' = idx + 1
               /\ runnable' = runnable)
              => UNCHANGED <<launches, waits, pfs, timer_pid, timers, procs, pc>>
           /\ (phase = "common" /\ pc.caller = "loop" /\ phase' = "module")
              => idx = dirLen + 1 ]_vars

\* C11 witness: the listing holds an entry that is not a regular file and then
\* an executable regular file; the second alone was launched, in a timed phase
\* whose subtree has run the loop to its end.
C11_Witness ==
    /\ Timed /\ phase = "common" /\ pc.subtree = "exited" /\ dirLen = 2
    /\ timers.common = "armed"
    /\ runnable.common = <<2>>
    /\ LaunchedIdx("common") = <<2>>

\* C12 as stated: once the timed stage's directory phase has been entered the
\* deadline is the clock value at entry plus the budget, with or without the
\* stage directory, and a module phase that reads the clock before that
\* deadline runs timed (pfs stays true, so PFS_SETUP arms a timer).
C12_DeadlineSetAtEntry ==
    /\ (Timed /\ ~(phase = "common" /\ pc.caller = "entry"))
          => Ticks(pfs_timeout) = StageDeadline
    /\ (Timed /\ phase = "module" /\ moduleAt = "before") => pfs

\* C13 as stated: once a timer fork has failed, no waitpid(-1) is executed in
\* that phase nor in the module phase after it, and no timer fork is attempted
\* again in the invocation.
C13_TimerForkFailureSticky ==
    /\ \A ph \in Phases : timers[ph] = "forkfail" => waits[ph] = 0
    /\ timers.common = "forkfail" => (timers.module = "unset" /\ waits.module = 0)

\* C13 amended: a failed timer fork makes the state EXPIRED for the rest of
\* that phase only: nothing is waited for in it, all its launches are made in
\* EXPIRED and it has no timer process.  The module phase decides anew from
\* its clock read: not later than the deadline it runs timed whatever became
\* of the directory phase's timer fork.
C13_TimerForkFailureInPhase ==
    /\ \A ph \in Phases :
          timers[ph] = "forkfail" =>
             /\ waits[ph] = 0
             /\ \A i \in 1..Len(launches) :
                   launches[i].phase = ph => launches[i].state = "EXPIRED"
             /\ \A p \in Pids : procs[p].kind = "timer" => procs[p].phase # ph
             /\ ph = phase => timer_pid = -1
    /\ (timers.common = "forkfail" /\ phase = "module"
          /\ moduleAt \in {"before", "at"}) => pfs
    /\ (timers.common = "forkfail" /\ moduleAt = "after") => timers.module = "unset"

\* C13 witness: the timer fork of the directory phase failed, a script was
\* launched there unwaited, and the module phase has armed a timer and waited.
C13_Witness ==
    /\ timers.common = "forkfail" /\ LaunchesOf("common") # << >>
    /\ timers.module = "armed" /\ waits.module > 0

\* the timer processes that have not been reaped
Timers == { p \in Pids : procs[p].kind = "timer" }

\* C14: at every moment of an invocation at most one timer process exists,
\* asleep or terminated and not yet reaped, over both phases together.
C14_AtMostOneTimer ==
    /\ Cardinality(Timers) <= 1
    /\ \A p \in Timers : procs[p].phase = phase /\ procs[p].parent = subtree

\* C14 witness: the timer of the module phase is asleep after the directory
\* phase had armed a timer of its own and never reaped it.
C14_Witness ==
    /\ phase = "module" /\ timers.common = "armed"
    /\ \E p \in Timers : Sleeping(p) /\ procs[p].phase = "module"

\* C15 as stated: in the timed stage the caller never runs a loop itself: every
\* launch of either phase is made by the subtree, and the caller's only
\* children are subtrees.
C15_CallerNeverLaunches ==
    Timed =>
        /\ pc.caller # "loop"
        /\ \A i \in 1..Len(launches) : launches[i].by = "subtree"
        /\ \A p \in Children(CallerPid) : procs[p].kind = "subtree"

\* C15 amended: in every phase that runs timed (pfs true) the caller has at
\* most one child, the subtree, leaves its waitpid only when that child has
\* exited, and every timer and script process is a child of the subtree (or of
\* init once the subtree is gone); launches in ARMED or EXPIRED are made by the
\* subtree.  In a phase of the timed stage that runs untimed (pfs false) the
\* caller runs the loop itself and launches with fork_dont_care.
C15_TimedPhaseIsolated ==
    /\ [](/\ Children(CallerPid) \subseteq {subtree}
          /\ \A p \in Children(CallerPid) : procs[p].kind = "subtree"
          /\ \A p \in Pids :
                procs[p].kind \in {"timer", "script"}
                   => procs[p].parent \in {subtree, InitPid}
          /\ pfs => pc.caller # "loop"
          /\ \A i \in 1..Len(launches) :
                /\ launches[i].state \in {"ARMED", "EXPIRED"}
                      <=> launches[i].by = "subtree"
                /\ launches[i].by = "caller"
                      <=> launches[i].fork = "fork_dont_care"
          /\ (Timed /\ pc.caller = "loop") => (phase = "module" /\ ~pfs))
    /\ [][ (pc.caller = "waitsub" /\ pc'.caller # "waitsub")
              => /\ procs[subtree].st = "zombie"
                 /\ subtree \notin DOMAIN procs' ]_vars

\* C15 witness: both phases of a timed stage ran in a subtree that launched a
\* script, and the caller is back from both.
C15_Witness ==
    /\ Timed /\ pc.caller = "done"
    /\ \A ph \in Phases :
          /\ timers[ph] = "armed"
          /\ \E i \in 1..Len(launches) :
                launches[i].phase = ph /\ launches[i].by = "subtree"

\* C16 as stated: the subtree never blocks for a script that was not started:
\* whenever it hangs in waitpid(-1), a script it launched is among its children.
C16_NoBlockForUnstartedScript ==
    Hangs => \E p \in Children(subtree) : procs[p].kind = "script"

\* C17: while ARMED scripts run one at a time.  At every launch made in ARMED
\* the subtree's only unreaped child is the timer; at every waitpid(-1) the
\* timer is an unreaped child and the only other child, if any, is the script
\* just launched; and every such wait returns by reaping one of the two.
C17_OneScriptAtATime ==
    /\ [](pc.subtree = "wait" =>
            /\ timer_pid \in Children(subtree)
            /\ procs[timer_pid].kind = "timer"
            /\ Cardinality(Children(subtree) \ {timer_pid}) <= 1
            /\ \A p \in Children(subtree) \ {timer_pid} : procs[p].kind = "script")
    /\ [][ /\ (launches' # launches /\ State = "ARMED")
                => Children(subtree) = {timer_pid}
           /\ (pc.subtree = "wait" /\ pc'.subtree = "loop")
                => \E p \in Children(subtree) : DOMAIN procs' = Pids \ {p} ]_vars

\* C17 witness: the second script launched in ARMED in a phase is being waited
\* for, and it and the timer are the subtree's only children.
C17_Witness ==
    /\ pc.subtree = "wait"
    /\ Len(LaunchesOf(phase)) = 2
    /\ \A i \in 1..2 : LaunchesOf(phase)[i].state = "ARMED"
    /\ Cardinality(Children(subtree)) = 2

\* a step in which a function returns to the daemon
Returns == phase' # phase \/ (pc'.caller = "done" /\ pc.caller # "done")

\* C18: only the caller returns.  While a subtree runs, pfs is true (so the
\* end of its loop is exit(0)), the caller waits in waitpid(pid), and the
\* process that runs the loop is never a timer; a caller that runs the loop has
\* pfs false (so the end of its loop is a plain return).  A return happens only
\* when no subtree is running; the subtree leaves its loop only by exit(0),
\* which returns nothing to the daemon; and a timer's end changes neither the
\* caller's position nor the phase.
C18_OnlyCallerReturns ==
    /\ [](/\ pc.subtree \in {"timerfork", "loop", "wait"} =>
                /\ pfs /\ pc.caller = "waitsub"
                /\ subtree \in Pids
                /\ procs[subtree].kind = "subtree" /\ procs[subtree].st = "running"
          /\ pc.caller = "loop" => ~pfs
          /\ pc.caller = "waitsub" => subtree \in Pids
          /\ \A p \in Timers : p # subtree /\ p # CallerPid)
    /\ [][ /\ Returns =>
                /\ pc.subtree \in {"none", "exited"} /\ pc'.subtree = pc.subtree
                /\ \A p \in DOMAIN procs' :
                      ~(procs'[p].kind = "subtree" /\ procs'[p].st = "running")
           /\ (pc.subtree \in {"loop", "wait"} /\ pc'.subtree \notin {"loop", "wait"}) =>
                /\ pc'.subtree = "exited" /\ procs'[subtree].st = "zombie"
                /\ ~Returns /\ pc'.caller = pc.caller
           /\ \A p \in Timers :
                (Sleeping(p) /\ (p \notin DOMAIN procs' \/ procs'[p].st # "running"))
                   => (~Returns /\ pc'.caller = pc.caller) ]_vars

\* C18 witness: the caller is back from both functions of a timed stage; the
\* subtrees of both phases have exited, the directory phase's timer was
\* killed and the module phase's timer ended after its sleep and was reaped.
C18_Witness ==
    /\ Timed /\ pc.caller = "done" /\ pc.subtree = "exited"
    /\ timers.common = "armed" /\ timers.module = "reaped"
    /\ \A p \in Pids : procs[p].kind = "script"

\* C19: every kill(pid, SIGKILL) has a positive target that is, at the call, a
\* timer process and an unreaped child of the sender; the step that sends it is
\* made by the subtree of the running phase to the timer that phase armed and
\* has not reaped; a phase whose timer was reaped or never forked sends none.
C19_KillOnlyOwnLiveTimer ==
    /\ [](/\ \A i \in 1..Len(kills) :
                /\ kills[i].target > 0
                /\ kills[i].kind = "timer"
                /\ kills[i].child
          /\ \A ph \in Phases :
                timers[ph] \in {"unset", "forkfail", "reaped"}
                   => \A i \in 1..Len(kills) : kills[i].phase # ph
          /\ Len(kills) <= 2)
    /\ [][ kills' # kills =>
              /\ timer_pid \in Children(subtree)
              /\ procs[timer_pid].kind = "timer"
              /\ procs[timer_pid].phase = phase
              /\ timers[phase] = "armed"
              /\ kills' = Append(kills, kills'[Len(kills')])
              /\ kills'[Len(kills')].target = timer_pid ]_vars

\* C19 witness: the subtrees of both phases have each killed their own timer,
\* after a script was launched and reaped in ARMED.
C19_Witness ==
    /\ Len(kills) = 2
    /\ kills[1].phase = "common" /\ kills[2].phase = "module"
    /\ \A ph \in Phases : waits[ph] > 0

\* C20: the step of a timed phase in which the isolating fork fails (the caller
\* leaves PFS_SETUP and no process was created) is the return of the function:
\* at that moment the phase has no timer, no launch and no wait, and the step
\* changes none of these nor the deadline; after such a failure in the
\* directory phase the deadline is still the entry time plus the budget.
C20_IsolatingForkFailureReturns ==
    /\ [][ (pc.caller = "setup" /\ pfs /\ pc' # pc /\ procs' = procs) =>
              /\ Returns
              /\ pc'.subtree = pc.subtree
              /\ timers[phase] = "unset" /\ timer_pid = -1
              /\ LaunchesOf(phase) = << >> /\ waits[phase] = 0
              /\ UNCHANGED <<pfs_timeout, timers, timer_pid, launches, waits,
                             kills, warns, subtree>> ]_vars
    /\ []((Timed /\ dirExists /\ phase = "module" /\ timers.common = "unset") =>
            /\ LaunchesOf("common") = << >> /\ waits.common = 0
            /\ Ticks(pfs_timeout) = StageDeadline
            /\ \A i \in 1..Len(kills) : kills[i].phase # "common")

\* C20 witness: the isolating fork of the directory phase failed with entries
\* in the directory, and the caller is in exec_module_scripts with the deadline
\* of the stage still set.
C20_Witness ==
    /\ Timed /\ dirExists /\ dirLen > 0
    /\ phase = "module" /\ timers.common = "unset"
    /\ pfs_timeout = Deadline(entered)

====
